---- MODULE Spec2Model ----
(***************************************************************************)
(* Viducate backend (src/app/main.py): the D-ID call throttle, the         *)
(* in-memory video status cache and the four request handlers that use     *)
(* them, under the scheduling of a single asyncio event loop.              *)
(*                                                                         *)
(* Time is time.time() in whole time units. The clock advances from one   *)
(* followed instant to the next while no handler runs, while a handler is  *)
(* blocked in its provider request, and between the two time.time() calls  *)
(* of the entries that generate_video and stream_video store.              *)
(***************************************************************************)
EXTENDS Integers, FiniteSets, Sequences, TLC

(* ------------------------------ bounds -------------------------------- *)

\* time.time() when the process starts (an epoch time: far above MinInterval)
StartTime == 20
\* how long after StartTime the clock is followed: by Spec, and by SpecAll
Horizon == 90
ShortHorizon == 30
\* the longest the provider takes to answer a request
MaxLatency == 15
\* what the clock advances by in the specification that follows a job
\* without end
LiveStep == 15

\* request slots: the requests that can be open (queued or running) together
Reqs == {"r1", "r2"}
\* the ids callers ask about: v1 is the id of the one talk the provider
\* holds, made through generate_video or already there when the process
\* starts (the cache does not outlive the process); v2 is an id the
\* provider does not know
Ids == {"v1", "v2"}
NewIds == {"v1"}
\* the slot of the requests that Spec serves, one after another
Serial == {"r1"}
\* result URLs the provider can report for a finished job
Urls == {"u1", "u2"}

(* -------------------------- program constants ------------------------- *)

\* main.py:56  "Allow a call every 15 seconds at most"
MinInterval == 15
\* main.py:218 short cache window of get_video_status
FreshWindow == 30
\* main.py:226 per-video provider check window of get_video_status
ProviderWindow == 60
\* main.py:298 avatar list lifetime
AvatarTTL == 3600

NoReq == "none"
NoUrl == "None"

VARIABLES
    now,                \* time.time()
    last_did_api_call,  \* main.py:22
    did_api_lock,       \* main.py:26
    video_cache,        \* main.py:19, the job entries
    avatars_cache,      \* main.py:19, the entry under key "available_avatars"
    did,                \* the provider: state of each talk
    running,            \* the request the event loop is executing, or NoReq
    req,                \* per request: position in its handler and its locals
    last,               \* the answer the step just taken gave to a caller, if any
    attempt,            \* the can_make_did_api_call the step just taken ran, if any
    last_admit,         \* history: clock reading of the latest admitted call
    last_release        \* history: when the lock was last released, while
                        \* that is less than MinInterval ago

vars == << now, last_did_api_call, did_api_lock, video_cache, avatars_cache,
           did, running, req, last, attempt, last_admit, last_release >>

\* the clock readings followed, as offsets from StartTime: the multiples of
\* MinInterval (every window of the program is one) and the instants 10, 40
\* and 65 of the staleness scenario
Instants == {d \in 0..Horizon : d % MinInterval = 0 \/ d \in {10, 40, 65}}

(* ------------------------------ records ------------------------------- *)

\* video_cache.get(video_id) of an id that has no entry
NoEntry ==
    [present |-> FALSE, status |-> "", last_checked |-> 0,
     result_url |-> NoUrl, last_d_id_check |-> 0]

Entry(status, last_checked, result_url, last_d_id_check) ==
    [present |-> TRUE, status |-> status, last_checked |-> last_checked,
     result_url |-> result_url, last_d_id_check |-> last_d_id_check]

NoAvatars == [present |-> FALSE, last_checked |-> 0]

\* a request slot with no request in it; of a request, cold is history:
\* the clock reading of the first provider call ever admitted, when the
\* request was open (queued or awaiting) at that moment, and else 0
IdleReq ==
    [pc |-> "idle", op |-> "", id |-> "", current_time |-> 0,
     cache_entry |-> NoEntry, ct |-> 0, url |-> NoUrl, t1 |-> 0, cold |-> 0]

NoAnswer ==
    [op |-> "", id |-> "", code |-> 0, inner |-> 0, status |-> "",
     url |-> NoUrl, served |-> "", called |-> FALSE, at |-> 0,
     entry |-> NoEntry]

\* the answer a handler gives: code is the HTTP status the caller sees,
\* inner the status of the exception the handler's outer except wrapped
\* (0 when there was none), served the branch that produced the answer,
\* called whether the provider was contacted, entry the cache entry the
\* handler read when it started
Answer(rec, code, inner, status, url, served, called) ==
    [op |-> rec.op, id |-> rec.id, code |-> code, inner |-> inner,
     status |-> status, url |-> url, served |-> served, called |-> called,
     at |-> rec.current_time, entry |-> rec.cache_entry]

\* no can_make_did_api_call in the step just taken. Of one: by is the
\* request, at its time.time(), last_call and locked what it read, ok its
\* result; admit marks the step that records the admitted call, with prev
\* the admitted call before it; released and cold are last_release and the
\* request's cold at that moment
NoAttempt ==
    [by |-> NoReq, at |-> 0, last_call |-> 0, locked |-> FALSE, ok |-> FALSE,
     admit |-> FALSE, prev |-> 0, released |-> 0, cold |-> 0]

(* ------------------------------ scheduling ---------------------------- *)

\* every handler is an `async def` that runs on the event loop thread: the
\* loop can switch to another request only where the handler awaits
\* (main.py:157, await custom_avatar.read()) or when it has returned
\* the handlers were they declared `def`: FastAPI runs them on pool threads,
\* which the interpreter can switch at any statement
YieldsThreaded(pc) == TRUE

Yields(pc) == pc \in {"idle", "gen_await", "rt_await"}

\* request r may take its next step
Runnable(r) == running = r \/ (running = NoReq /\ req[r].pc # "idle")

Next_running(r, pc) == IF Yields(pc) THEN NoReq ELSE r

\* r moves to position pc, with its locals now rec
Goto(r, rec, pc) ==
    /\ req' = [req EXCEPT ![r] = [rec EXCEPT !.pc = pc]]
    /\ running' = Next_running(r, pc)
    /\ last' = NoAnswer

\* r returns answer a to the caller
Return(r, a) ==
    /\ req' = [req EXCEPT ![r] = IdleReq]
    /\ running' = Next_running(r, "idle")
    /\ last' = a

(* ------------------------------- Init --------------------------------- *)

Init ==
    /\ now = StartTime
    /\ last_did_api_call = 0
    /\ did_api_lock = FALSE
    /\ video_cache = [i \in Ids |-> NoEntry]
    /\ avatars_cache = NoAvatars
    /\ did \in [Ids -> {"none", "created"}]
    /\ did["v2"] = "none"
    /\ running = NoReq
    /\ req = [r \in Reqs |-> IdleReq]
    /\ last = NoAnswer
    /\ last_admit = 0
    /\ last_release = 0
    /\ attempt = NoAttempt

(* ------------------------------- clock -------------------------------- *)

\* the followed instants after offset d, up to offset h
Later(d, h) == {e \in Instants : d < e /\ e <= h}

\* the first of them
NextInstant(d, h) == CHOOSE e \in Later(d, h) : \A f \in Later(d, h) : e <= f

\* the clock may be seen to advance to t: no handler is running, or the
\* running handler is blocked in its provider request (which the provider
\* answers within MaxLatency), or it is between the two time.time() calls
\* of the entry it stores
ClockMayAdvance(t) ==
    \A r \in Reqs : running = r =>
        \/ req[r].pc \in {"call", "rt_call"} /\ t - req[r].ct <= MaxLatency
        \/ req[r].pc \in {"gen_store", "st_store"} /\ req[r].t1 = now

\* the clock advances to the next followed instant, up to offset h
TickTo(h) ==
    /\ Later(now - StartTime, h) # {}
    /\ LET t == StartTime + NextInstant(now - StartTime, h) IN
        /\ ClockMayAdvance(t)
        /\ now' = t
        /\ last_release' = IF t - last_release < MinInterval THEN last_release ELSE 0
    /\ UNCHANGED << last_did_api_call, did_api_lock, video_cache,
                    avatars_cache, did, running, req, last_admit >>
    /\ attempt' = NoAttempt
    /\ last' = NoAnswer

Tick == TickTo(Horizon)

TickShort == TickTo(ShortHorizon)

\* the avatar list outlives AvatarTTL: from the last instant followed by
\* SpecAll the clock jumps that far
TickLong ==
    /\ now - StartTime \in Instants
    /\ now - StartTime <= ShortHorizon
    /\ Later(now - StartTime, ShortHorizon) = {}
    /\ running = NoReq
    /\ now' = now + AvatarTTL
    /\ last_release' = 0
    /\ UNCHANGED << last_did_api_call, did_api_lock, video_cache,
                    avatars_cache, did, running, req, last_admit >>
    /\ attempt' = NoAttempt
    /\ last' = NoAnswer

(* ------------------------------ provider ------------------------------ *)

HttpResp(code, status, url, id) ==
    [kind |-> "http", code |-> code, status |-> status, url |-> url, id |-> id]

\* requests.get / requests.post raised (connection error, timeout)
TransportError ==
    [kind |-> "exception", code |-> 0, status |-> "", url |-> NoUrl, id |-> ""]

\* the provider fails the request
ProviderError == HttpResp(500, "", NoUrl, "")

\* the provider refuses the request (402: the account is out of credits)
ProviderRejects == HttpResp(402, "", NoUrl, "")

\* GET talks/{id}: the talk's status, with result_url once it is done
TalkResponses(id) ==
    {ProviderError, TransportError} \cup
    (IF did[id] = "none" THEN {HttpResp(404, "", NoUrl, "")}
     ELSE IF did[id] = "done"
          THEN {HttpResp(200, "done", u, id) : u \in Urls}
          ELSE {HttpResp(200, did[id], NoUrl, id)})

\* POST talks: 201 with the id of a new talk
CreateResponses ==
    {ProviderError, ProviderRejects, TransportError} \cup
    {HttpResp(201, "created", NoUrl, i) : i \in {j \in NewIds : did[j] = "none"}}

\* GET presenters
PresenterResponses == {ProviderError, TransportError, HttpResp(200, "", NoUrl, "")}
\* the provider were it to take up a talk in error again
AdvanceRetries(i) ==
    /\ did[i] \in {"created", "started", "error"}
    /\ \E s \in (IF did[i] = "created" THEN {"started", "error"}
                 ELSE IF did[i] = "started" THEN {"done", "error"}
                 ELSE {"started"}) :
           did' = [did EXCEPT ![i] = s]
    /\ UNCHANGED << now, last_did_api_call, did_api_lock, video_cache,
                    avatars_cache, running, req, last_admit,
                    last_release >>
    /\ attempt' = NoAttempt
    /\ last' = NoAnswer

\* the provider works on a talk: created -> started -> done, or error
Advance(i) ==
    /\ did[i] \in {"created", "started"}
    /\ \E s \in (IF did[i] = "created" THEN {"started", "error"} ELSE {"done", "error"}) :
           did' = [did EXCEPT ![i] = s]
    /\ UNCHANGED << now, last_did_api_call, did_api_lock, video_cache,
                    avatars_cache, running, req, last_admit,
                    last_release >>
    /\ attempt' = NoAttempt
    /\ last' = NoAnswer

(* ------------------------------ requests ------------------------------ *)

\* a request reaches the server; its handler runs when the loop takes it
Arrive(r) ==
    /\ req[r].pc = "idle"
    /\ req' = [req EXCEPT ![r].pc = "queued"]
    /\ UNCHANGED << now, last_did_api_call, did_api_lock, video_cache,
                    avatars_cache, did, running, last_admit,
                    last_release >>
    /\ attempt' = NoAttempt
    /\ last' = NoAnswer

(* ------------------------------ throttle ------------------------------ *)

\* the interval test were the window one clock step too short
TooSoonShort(current_time, last_call) == current_time - last_call < MinInterval - 5

\* main.py:53-56: the last provider call is less than MinInterval ago
TooSoon(current_time, last_call) == current_time - last_call < MinInterval
\* can_make_did_api_call without the interval check of lines 56-58
RefusedLockOnly(lock, current_time, last_call) == lock

\* can_make_did_api_call, lines 48-58: the two refusals
Refused(lock, current_time, last_call) == lock \/ TooSoon(current_time, last_call)
\* the 429 were get_video_status to have no fallback to the cached entry
RateLimitedRaises(rec) == Answer(rec, 500, 429, "", NoUrl, "error", FALSE)

\* the HTTPException(429) of make_did_api_call (lines 69-73) as the handler
\* answers it: get_video_status falls back to the entry it read
\* (main.py:271-279), and every handler's outer `except Exception` turns
\* what is left into a 500 (main.py:194-196, 283-285, 328-330, 377-379)
RateLimited(rec) ==
    IF rec.op = "status" /\ rec.cache_entry.present
    THEN Answer(rec, 200, 0, rec.cache_entry.status, NoUrl, "limited", FALSE)
    ELSE Answer(rec, 500, 429, "", NoUrl, "error", FALSE)

\* make_did_api_call line 69 with can_make_did_api_call lines 48-58: the
\* handler with locals rec asks for a provider call
TryCall(r, rec) ==
    LET ok == ~Refused(did_api_lock, now, last_did_api_call) IN
    /\ attempt' = [by |-> r, at |-> now, last_call |-> last_did_api_call,
                   locked |-> did_api_lock, ok |-> ok, admit |-> FALSE, prev |-> 0,
                   released |-> last_release, cold |-> rec.cold]
    /\ IF ok
       THEN Goto(r, [rec EXCEPT !.ct = now], "acq_set")
       ELSE Return(r, RateLimited(rec))

\* can_make_did_api_call lines 61-62 and make_did_api_call lines 75-97:
\* record the call, take the lock and send the request
AcqSet(r) ==
    /\ Runnable(r)
    /\ req[r].pc = "acq_set"
    /\ last_did_api_call' = req[r].ct
    /\ did_api_lock' = TRUE
    /\ last_admit' = req[r].ct
    /\ attempt' = [by |-> r, at |-> req[r].ct, last_call |-> last_did_api_call,
                   locked |-> did_api_lock, ok |-> TRUE, admit |-> TRUE,
                   prev |-> last_admit, released |-> last_release,
                   cold |-> req[r].cold]
    /\ req' = [q \in Reqs |->
                 IF q = r THEN [req[r] EXCEPT !.pc = "call"]
                 ELSE IF last_admit = 0 /\ req[q].pc \in {"queued", "gen_await"}
                      THEN [req[q] EXCEPT !.cold = req[r].ct]
                      ELSE req[q]]
    /\ running' = Next_running(r, "call")
    /\ last' = NoAnswer
    /\ UNCHANGED << now, video_cache, avatars_cache, did, last_release >>

\* make_did_api_call were lines 102 and 109 missing
ReleaseSkipped ==
    /\ did_api_lock' = did_api_lock
    /\ last_release' = now

\* make_did_api_call line 102 (the call returned) or 109 (it raised): the
\* lock is released on either way out
Release ==
    /\ did_api_lock' = FALSE
    /\ last_release' = now

\* the 500 of a handler's outer `except Exception` around the exception of
\* status `inner` (1: not an HTTPException)
Failure(rec, inner) == Answer(rec, 500, inner, "", NoUrl, "error", TRUE)

(* -------------------------- get_video_status -------------------------- *)

\* main.py:205-206
GsLocals(r, id) ==
    [req[r] EXCEPT !.op = "status", !.id = id, !.current_time = now,
                   !.cache_entry = video_cache[id]]

\* main.py:209
Tier1(e) == e.present /\ e.status = "completed"
\* case 2 were it to compare with last_d_id_check instead of last_checked
Tier2Stale(e, current_time) ==
    e.present /\ current_time - e.last_d_id_check < FreshWindow

\* main.py:218
Tier2(e, current_time) == e.present /\ current_time - e.last_checked < FreshWindow
\* case 3 were its window ProviderWindow + FreshWindow long
Tier3Long(e, current_time) ==
    e.present /\ current_time - e.last_d_id_check < ProviderWindow + FreshWindow

\* case 3 were its window FreshWindow long
Tier3Short(e, current_time) ==
    e.present /\ current_time - e.last_d_id_check < FreshWindow

\* main.py:226
Tier3(e, current_time) == e.present /\ current_time - e.last_d_id_check < ProviderWindow

\* main.py:204-239 and 271-285: the three cache cases, or on to
\* make_did_api_call
GsStart(r, id) ==
    /\ Runnable(r)
    /\ req[r].pc = "queued"
    /\ LET rec == GsLocals(r, id)
           e == rec.cache_entry IN
        IF Tier1(e)
        THEN /\ Return(r, Answer(rec, 200, 0, "completed", e.result_url, "tier1", FALSE))
             /\ UNCHANGED video_cache
             /\ attempt' = NoAttempt
        ELSE IF Tier2(e, rec.current_time)
        THEN /\ Return(r, Answer(rec, 200, 0, e.status, NoUrl, "tier2", FALSE))
             /\ UNCHANGED video_cache
             /\ attempt' = NoAttempt
        ELSE IF Tier3(e, rec.current_time)
        THEN /\ video_cache' = [video_cache EXCEPT ![id].last_checked = rec.current_time]
             /\ Return(r, Answer(rec, 200, 0, e.status, NoUrl, "tier3", FALSE))
             /\ attempt' = NoAttempt
        ELSE /\ TryCall(r, rec)
             /\ UNCHANGED video_cache
    /\ UNCHANGED << now, last_did_api_call, did_api_lock, avatars_cache, did,
                    last_admit,
                    last_release >>
\* the entry of a live check were the provider's "error" stored as "failed"
CheckedFailed(status, url, current_time) ==
    IF status = "done"
    THEN Entry("completed", current_time, url, current_time)
    ELSE Entry(IF status = "error" THEN "failed" ELSE status, current_time,
               NoUrl, current_time)

\* the entry of a live check were line 248 missing: every status as it came
CheckedRaw(status, url, current_time) ==
    Entry(status, current_time, url, current_time)

\* the entry of a live check were a job found in error dropped from the cache
CheckedDropsFailed(status, url, current_time) ==
    IF status = "done"
    THEN Entry("completed", current_time, url, current_time)
    ELSE IF status = "error" THEN NoEntry
    ELSE Entry(status, current_time, NoUrl, current_time)

\* the entry of a live check were line 251 to leave result_url out
CheckedNoUrl(status, url, current_time) ==
    Entry(IF status = "done" THEN "completed" ELSE status, current_time,
          NoUrl, current_time)

\* main.py:247-265: the entry written after a live check
Checked(status, url, current_time) ==
    IF status = "done"
    THEN Entry("completed", current_time, url, current_time)
    ELSE Entry(status, current_time, NoUrl, current_time)

\* make_did_api_call lines 89-111 and main.py:241-285: the provider answers
\* the status check, the lock is released and the answer is handled
GsCall(r) ==
    /\ Runnable(r)
    /\ req[r].pc = "call"
    /\ req[r].op = "status"
    /\ Release
    /\ \E resp \in TalkResponses(req[r].id) :
        LET rec == req[r] IN
        IF resp.kind = "exception"
        THEN /\ Return(r, Failure(rec, 1))
             /\ UNCHANGED video_cache
        ELSE IF resp.code # 200
        THEN /\ Return(r, Failure(rec, resp.code))
             /\ UNCHANGED video_cache
        ELSE /\ video_cache' = [video_cache EXCEPT ![rec.id] =
                                   Checked(resp.status, resp.url, rec.current_time)]
             /\ Return(r, Answer(rec, 200, 0,
                                 IF resp.status = "done" THEN "completed" ELSE resp.status,
                                 IF resp.status = "done" THEN resp.url ELSE NoUrl,
                                 "live", TRUE))
    /\ UNCHANGED << now, last_did_api_call, avatars_cache, did, last_admit >>
    /\ attempt' = NoAttempt

(* ---------------------------- generate_video -------------------------- *)

\* main.py:130-171: build the payload and ask for the provider call; an
\* uploaded image is first read with `await custom_avatar.read()`, where
\* the event loop may run other requests
GenStart(r, image) ==
    /\ Runnable(r)
    /\ req[r].pc = "queued"
    /\ LET rec == [req[r] EXCEPT !.op = "generate"] IN
        IF image
        THEN /\ Goto(r, rec, "gen_await")
             /\ attempt' = NoAttempt
        ELSE TryCall(r, rec)
    /\ UNCHANGED << now, last_did_api_call, did_api_lock, video_cache,
                    avatars_cache, did, last_admit,
                    last_release >>

\* main.py:157-171: the upload has been read
GenRead(r) ==
    /\ Runnable(r)
    /\ req[r].pc = "gen_await"
    /\ TryCall(r, req[r])
    /\ UNCHANGED << now, last_did_api_call, did_api_lock, video_cache,
                    avatars_cache, did, last_admit,
                    last_release >>

\* make_did_api_call lines 89-111 and main.py:173-183: the provider answers
\* POST talks; on 201 the entry is built, and its "last_checked" is the
\* first of two time.time() calls
GenCall(r) ==
    /\ Runnable(r)
    /\ req[r].pc = "call"
    /\ req[r].op = "generate"
    /\ Release
    /\ \E resp \in CreateResponses :
        LET rec == req[r] IN
        IF resp.kind = "exception"
        THEN /\ Return(r, Failure(rec, 1))
             /\ UNCHANGED did
        ELSE IF resp.code # 201
        THEN /\ Return(r, Failure(rec, resp.code))
             /\ UNCHANGED did
        ELSE /\ did' = [did EXCEPT ![resp.id] = "created"]
             /\ Goto(r, [rec EXCEPT !.id = resp.id, !.t1 = now], "gen_store")
    /\ UNCHANGED << now, last_did_api_call, video_cache, avatars_cache,
                    last_admit >>
    /\ attempt' = NoAttempt

\* main.py:181-192: "last_d_id_check" is the second time.time() call
GenStore(r) ==
    /\ Runnable(r)
    /\ req[r].pc = "gen_store"
    /\ video_cache' = [video_cache EXCEPT ![req[r].id] =
                          Entry("pending", req[r].t1, NoUrl, now)]
    /\ Return(r, Answer(req[r], 200, 0, "pending", NoUrl, "live", TRUE))
    /\ UNCHANGED << now, last_did_api_call, did_api_lock, avatars_cache, did,
                    last_admit,
                    last_release >>
    /\ attempt' = NoAttempt

(* ------------------------- get_available_avatars ---------------------- *)

\* main.py:298
AvatarsFresh(e, current_time) == e.present /\ current_time - e.last_checked < AvatarTTL

\* main.py:293-304 and 328-330
AvStart(r) ==
    /\ Runnable(r)
    /\ req[r].pc = "queued"
    /\ LET rec == [req[r] EXCEPT !.op = "avatars", !.current_time = now] IN
        IF AvatarsFresh(avatars_cache, now)
        THEN /\ Return(r, Answer(rec, 200, 0, "", NoUrl, "cache", FALSE))
             /\ attempt' = NoAttempt
        ELSE TryCall(r, rec)
    /\ UNCHANGED << now, last_did_api_call, did_api_lock, video_cache,
                    avatars_cache, did, last_admit,
                    last_release >>

\* make_did_api_call lines 89-111 and main.py:306-330
AvCall(r) ==
    /\ Runnable(r)
    /\ req[r].pc = "call"
    /\ req[r].op = "avatars"
    /\ Release
    /\ \E resp \in PresenterResponses :
        LET rec == req[r] IN
        IF resp.kind = "exception"
        THEN /\ Return(r, Failure(rec, 1))
             /\ UNCHANGED avatars_cache
        ELSE IF resp.code # 200
        THEN /\ Return(r, Failure(rec, resp.code))
             /\ UNCHANGED avatars_cache
        ELSE /\ avatars_cache' = [present |-> TRUE, last_checked |-> rec.current_time]
             /\ Return(r, Answer(rec, 200, 0, "", NoUrl, "live", TRUE))
    /\ UNCHANGED << now, last_did_api_call, video_cache, did, last_admit >>
    /\ attempt' = NoAttempt

(* ----------------------------- stream_video --------------------------- *)
\* stream_video were it to ignore the cached URL
HasCachedUrlNever(e) == FALSE

\* main.py:341
HasCachedUrl(e) == e.present /\ e.status = "completed" /\ e.result_url # NoUrl

\* main.py:338-348 (and 368-375 when the URL is cached)
StStart(r, id) ==
    /\ Runnable(r)
    /\ req[r].pc = "queued"
    /\ LET rec == [req[r] EXCEPT !.op = "stream", !.id = id, !.current_time = now,
                                 !.cache_entry = video_cache[id]] IN
        IF HasCachedUrl(rec.cache_entry)
        THEN /\ Return(r, Answer(rec, 200, 0, "completed", rec.cache_entry.result_url,
                                 "cache", FALSE))
             /\ attempt' = NoAttempt
        ELSE TryCall(r, rec)
    /\ UNCHANGED << now, last_did_api_call, did_api_lock, video_cache,
                    avatars_cache, did, last_admit,
                    last_release >>

\* make_did_api_call lines 89-111 and main.py:350-363: the provider answers;
\* the entry's "last_checked" is the first of two time.time() calls
StCall(r) ==
    /\ Runnable(r)
    /\ req[r].pc = "call"
    /\ req[r].op = "stream"
    /\ Release
    /\ \E resp \in TalkResponses(req[r].id) :
        LET rec == req[r] IN
        IF resp.kind = "exception"
        THEN Return(r, Failure(rec, 1))
        ELSE IF resp.code # 200
        THEN Return(r, Failure(rec, resp.code))
        ELSE IF resp.status # "done"
        THEN Return(r, Failure(rec, 400))
        ELSE Goto(r, [rec EXCEPT !.url = resp.url, !.t1 = now], "st_store")
    /\ UNCHANGED << now, last_did_api_call, video_cache, avatars_cache, did,
                    last_admit >>
    /\ attempt' = NoAttempt

\* main.py:361-375: "last_d_id_check" is the second time.time() call
StStore(r) ==
    /\ Runnable(r)
    /\ req[r].pc = "st_store"
    /\ video_cache' = [video_cache EXCEPT ![req[r].id] =
                          Entry("completed", req[r].t1, req[r].url, now)]
    /\ Return(r, Answer(req[r], 200, 0, "completed", req[r].url, "live", TRUE))
    /\ UNCHANGED << now, last_did_api_call, did_api_lock, avatars_cache, did,
                    last_admit,
                    last_release >>
    /\ attempt' = NoAttempt

(* ---------------------------- specification --------------------------- *)

\* the steps of the job endpoints: generate_video, get_video_status,
\* stream_video
JobStep(r) ==
    \/ Arrive(r)
    \/ AcqSet(r)
    \/ \E i \in Ids : GsStart(r, i)
    \/ GsCall(r)
    \/ \E image \in BOOLEAN : GenStart(r, image)
    \/ GenRead(r)
    \/ GenCall(r)
    \/ GenStore(r)
    \/ \E i \in Ids : StStart(r, i)
    \/ StCall(r)
    \/ StStore(r)

(* ------------------- routers/video.py, services/video.py ------------- *)

\* the endpoints of the APIRouter of routers/video.py, which answer from the
\* functions of services/video.py. main.py does not include this router:
\* these steps are those of an application that does
RouterOps == {"rt_generate", "rt_status", "rt_avatars", "rt_stream"}

\* routers/video.py:14-25, 33-38, 53-58, 60-65 and services/video.py up
\* to the requests call: there is no can_make_did_api_call on the way;
\* generate_video_service first awaits the upload (services/video.py:43)
RtStart(r, op, id, image) ==
    /\ Runnable(r)
    /\ req[r].pc = "queued"
    /\ op \in {"rt_status", "rt_stream"} <=> id \in Ids
    /\ image => op = "rt_generate"
    /\ Goto(r, [req[r] EXCEPT !.op = op, !.id = id, !.current_time = now,
                              !.ct = now],
            IF image THEN "rt_await" ELSE "rt_call")
    /\ attempt' = NoAttempt
    /\ UNCHANGED << now, last_did_api_call, did_api_lock, video_cache,
                    avatars_cache, did, last_admit, last_release >>

\* services/video.py:43-63: the upload has been read
RtRead(r) ==
    /\ Runnable(r)
    /\ req[r].pc = "rt_await"
    /\ Goto(r, [req[r] EXCEPT !.ct = now], "rt_call")
    /\ attempt' = NoAttempt
    /\ UNCHANGED << now, last_did_api_call, did_api_lock, video_cache,
                    avatars_cache, did, last_admit, last_release >>

\* what the provider can answer to the call of a router endpoint
RtResponses(rec) ==
    IF rec.op = "rt_generate" THEN CreateResponses
    ELSE IF rec.op = "rt_avatars" THEN PresenterResponses
    ELSE TalkResponses(rec.id)

\* services/video.py:63-79, 90-101, 112-134, 146-166 and the router's
\* return: the provider answers; every exception, the HTTPException of a
\* non-success status included, leaves as a 500
RtCall(r) ==
    /\ Runnable(r)
    /\ req[r].pc = "rt_call"
    /\ \E resp \in RtResponses(req[r]) :
        LET rec == req[r]
            good == IF rec.op = "rt_generate" THEN 201 ELSE 200 IN
        IF resp.kind = "exception"
        THEN /\ Return(r, Failure(rec, 1))
             /\ UNCHANGED did
        ELSE IF resp.code # good
        THEN /\ Return(r, Failure(rec, resp.code))
             /\ UNCHANGED did
        ELSE IF rec.op = "rt_stream" /\ resp.status # "done"
        THEN /\ Return(r, Failure(rec, 400))
             /\ UNCHANGED did
        ELSE IF rec.op = "rt_generate"
        THEN /\ did' = [did EXCEPT ![resp.id] = "created"]
             /\ Return(r, Answer([rec EXCEPT !.id = resp.id], 200, 0, "pending",
                                 NoUrl, "live", TRUE))
        ELSE /\ Return(r, Answer(rec, 200, 0,
                                 IF resp.status = "done" THEN "completed" ELSE resp.status,
                                 resp.url, "live", TRUE))
             /\ UNCHANGED did
    /\ attempt' = NoAttempt
    /\ UNCHANGED << now, last_did_api_call, did_api_lock, video_cache,
                    avatars_cache, last_admit, last_release >>

RouterStep(r) ==
    \/ \E op \in RouterOps, id \in Ids \cup {""}, image \in BOOLEAN : RtStart(r, op, id, image)
    \/ RtRead(r)
    \/ RtCall(r)

\* an application that includes the router next to the status endpoint of
\* main.py, followed for ShortHorizon
NextRouter ==
    \/ TickShort
    \/ \E i \in Ids : Advance(i)
    \/ \E r \in Reqs :
          \/ Arrive(r)
          \/ RouterStep(r)
          \/ \E i \in Ids : GsStart(r, i)
          \/ AcqSet(r)
          \/ GsCall(r)

SpecRouter == Init /\ [][NextRouter]_vars

(* --------------------- a job polled without end ---------------------- *)

\* To follow polling without end in finitely many states the clock is kept
\* relative: instead of now moving forward by LiveStep, every stored clock
\* reading moves back by LiveStep. The handlers only ever compare now with
\* a stored reading, against windows of at most ProviderWindow, so a
\* reading that old is not moved further.
LiveSpan == ProviderWindow

Shift(t) == IF t - LiveStep < now - LiveSpan THEN now - LiveSpan ELSE t - LiveStep

\* LiveStep passes with no handler at work
TickLive ==
    /\ running = NoReq
    /\ \A r \in Reqs : req[r].pc \in {"idle", "queued"}
    /\ last_did_api_call' = Shift(last_did_api_call)
    /\ video_cache' = [i \in Ids |->
                         IF video_cache[i].present
                         THEN [video_cache[i] EXCEPT
                                  !.last_checked = Shift(@),
                                  !.last_d_id_check = Shift(@)]
                         ELSE video_cache[i]]
    /\ last_release' = 0
    /\ UNCHANGED << now, did_api_lock, avatars_cache, did, running, req,
                    last_admit >>
    /\ attempt' = NoAttempt
    /\ last' = NoAnswer

\* the client that polls the job v1, and another one that polls any job
Poller == "r1"
Rival == "r2"

PollerStart == GsStart(Poller, "v1")
RivalStart == \E i \in Ids : GsStart(Rival, i)

\* get_video_status polled by the two clients
NextLive ==
    \/ TickLive
    \/ \E i \in Ids : Advance(i)
    \/ PollerStart
    \/ RivalStart
    \/ \E r \in Reqs : Arrive(r) \/ AcqSet(r) \/ GsCall(r)

\* time passes; both clients poll for ever; the event loop runs every
\* handler it has queued, and a running handler to its end
Fairness ==
    /\ SF_vars(TickLive)
    /\ SF_vars(PollerStart)
    /\ SF_vars(RivalStart)
    /\ \A r \in Reqs : WF_vars(Arrive(r)) /\ WF_vars(AcqSet(r)) /\ WF_vars(GsCall(r))

SpecLive == Init /\ [][NextLive]_vars /\ Fairness

\* the job endpoints, followed for Horizon, with the requests served one
\* after another: the handlers await nothing once they have asked for
\* their provider call, so the event loop runs each of them to its end
Next ==
    \/ Tick
    \/ \E i \in Ids : Advance(i)
    \/ \E r \in Serial : JobStep(r)

Spec == Init /\ [][Next]_vars

\* all four endpoints, followed for ShortHorizon and once more AvatarTTL later
NextAll ==
    \/ TickShort
    \/ TickLong
    \/ \E i \in Ids : Advance(i)
    \/ \E r \in Reqs : JobStep(r) \/ AvStart(r) \/ AvCall(r)

SpecAll == Init /\ [][NextAll]_vars

(* ------------------------------- claims ------------------------------- *)

\* the requests that hold or are taking the throttle: admitted by
\* can_make_did_api_call and not yet back from the provider
Admitted == {r \in Reqs : req[r].pc \in {"acq_set", "call"}}

\* the provider calls in flight
InFlight == {r \in Reqs : req[r].pc = "call"}

\* C1: two provider calls admitted by can_make_did_api_call, one after the
\* other, whatever endpoint asked for them, are at least MinInterval apart,
\* and a can_make_did_api_call made less than MinInterval after the latest
\* admitted call returns False
C1_CallCeiling ==
    /\ attempt.admit /\ attempt.prev # 0 => attempt.at - attempt.prev >= MinInterval
    /\ attempt.by # NoReq /\ ~attempt.admit /\ attempt.at - last_admit < MinInterval
          => ~attempt.ok

\* a call admitted exactly MinInterval after the one before it
C1_Witness ==
    attempt.admit /\ attempt.prev # 0 /\ attempt.at - attempt.prev = MinInterval

\* C2: at most one provider call is in flight, the lock is held while it is,
\* and at most one request is between passing the check of
\* can_make_did_api_call and the release of the lock
C2_MutualExclusion ==
    /\ Cardinality(InFlight) <= 1
    /\ Cardinality(Admitted) <= 1
    /\ InFlight # {} => did_api_lock

\* a provider call in flight while another request is open
C2_Witness ==
    \E r1, r2 \in Reqs :
        /\ r1 # r2
        /\ req[r1].pc = "call"
        /\ req[r2].pc \in {"queued", "gen_await"}

\* the statuses a job never leaves: "completed" is what the code stores for
\* the provider's "done"; the provider's "error" is stored as it came
Terminal == {"completed", "error"}

\* C3: once the cached state of a job is Completed or Failed, no later
\* getStatus triggers a provider call: no status request that read a
\* terminal entry is admitted to the provider.
C3_TerminalIdempotence ==
    \A r \in Reqs :
        req[r].op = "status" /\ req[r].pc \in {"acq_set", "call"}
            => req[r].cache_entry.status \notin Terminal

\* C4: a job record has a result URL exactly when its state is Completed.
C4_UrlIffCompleted ==
    \A i \in Ids :
        video_cache[i].present
            => (video_cache[i].result_url # NoUrl <=> video_cache[i].status = "completed")

C4_Witness ==
    \E i \in Ids :
        /\ video_cache[i].present
        /\ video_cache[i].status = "completed"
        /\ video_cache[i].result_url # NoUrl

\* the times a job can be submitted at with the polls of C5 within the horizon
SubmitTimes == {StartTime + d : d \in {e \in Instants : e + 65 <= Horizon}}

\* the entry a poll at t0 + 40 leaves of a job stored at t0
Refreshed(t0) == Entry("pending", t0 + 40, NoUrl, t0)

\* what C5 says of the first two polls of a job stored at t0 with both
\* timestamps t0: at t0 + 10 the cache answers by tier 2, at t0 + 40 by
\* tier 3, neither with a provider call
C5_FirstPolls(t0) ==
    /\ last.op = "status" /\ last.entry = Entry("pending", t0, NoUrl, t0)
            /\ last.at = t0 + 10
        => last.served = "tier2" /\ last.status = "pending" /\ ~last.called
    /\ last.op = "status" /\ last.entry = Entry("pending", t0, NoUrl, t0)
            /\ last.at = t0 + 40
        => /\ last.served = "tier3" /\ last.status = "pending" /\ ~last.called
           /\ video_cache[last.id] = Refreshed(t0)

\* the poll at t0 + 65 that follows the one at t0 + 40
ThirdPoll(t0) ==
    last.op = "status" /\ last.entry = Refreshed(t0) /\ last.at = t0 + 65

\* C5 as the spec states it: after a submit at T0 with no provider change,
\* getStatus at T0+10 and T0+40 return Pending from the cache with no
\* provider call, and getStatus at T0+65 triggers a live provider call.
C5_StalenessAsStated ==
    \A t0 \in SubmitTimes :
        /\ C5_FirstPolls(t0)
        /\ ThirdPoll(t0) => last.served \in {"live", "limited", "error"}

\* C5, amended: the polls at T0+10 and T0+40 are as stated, and the poll at
\* T0+65 is answered from the cache by tier 2 as well, with no provider
\* call, because the poll at T0+40 set lastCheckedAt to T0+40.
C5_Staleness ==
    \A t0 \in SubmitTimes :
        /\ C5_FirstPolls(t0)
        /\ ThirdPoll(t0)
            => last.served = "tier2" /\ last.status = "pending" /\ ~last.called

C5_Witness == \E t0 \in SubmitTimes : ThirdPoll(t0)

\* C6: a getStatus that finds a non-terminal record and is refused by the
\* throttle returns the cached state with no provider call, not an error.
C6_GracefulDegradation ==
    /\ last.op = "status"
    /\ last.entry.present
    /\ attempt.by # NoReq
    /\ ~attempt.ok
    => /\ last.code = 200
       /\ last.status = last.entry.status
       /\ ~last.called
       /\ video_cache[last.id] = last.entry

C6_Witness ==
    /\ last.op = "status"
    /\ last.entry.present
    /\ last.entry.status \notin Terminal
    /\ attempt.by # NoReq
    /\ ~attempt.ok

\* a status request has just been answered by a live check that found the
\* job done
LiveDone == last.op = "status" /\ last.served = "live" /\ last.status = "completed"

\* C7, of the answers: a live check that finds the job done leaves the
\* record Completed with the provider's URL, and a getStatus that reads a
\* Completed record returns Completed with the record's URL and calls
\* nobody
C7_Answers ==
    /\ LiveDone
        => /\ last.url # NoUrl
           /\ video_cache[last.id] = Entry("completed", last.at, last.url, last.at)
    /\ last.op = "status" /\ last.entry.present /\ last.entry.status = "completed"
        => /\ last.code = 200
           /\ last.status = "completed"
           /\ last.url = last.entry.result_url
           /\ ~last.called

\* C7, of the record: a Completed record is never written again
C7_Kept == \A i \in Ids : video_cache[i].status = "completed" => video_cache'[i] = video_cache[i]

\* C7: when a live check reports done with URL u the record becomes
\* Completed with u; from then on every getStatus returns Completed with u
\* without a provider call, and the record never changes again.
C7_CompletedSticks == [](C7_Answers) /\ [][C7_Kept]_vars

C7_Witness ==
    /\ last.op = "status"
    /\ last.served = "tier1"
    /\ last.url # NoUrl

AfterRelease ==
    /\ attempt.by # NoReq
    /\ ~attempt.admit
    /\ attempt.released # 0
    /\ attempt.at - attempt.released < MinInterval

\* C9 as the spec states it: after a release at time R, every tryAcquire
\* made at a time t with t - R < MinInterval fails.
C9_IntervalFromRelease == AfterRelease => ~attempt.ok

\* C9, amended: the interval runs from the admission of the released call,
\* not from its release: a tryAcquire made after the release fails exactly
\* when it is made less than MinInterval after the time A that
\* lastCallAt holds, however long ago the release was.
C9_IntervalFromAdmission ==
    AfterRelease => (attempt.ok <=> attempt.at - last_admit >= MinInterval)

C9_Witness == AfterRelease /\ ~attempt.ok /\ attempt.released > last_admit

\* C10: a getStatus for an id with no record, refused by the throttle,
\* reports RateLimited (429) to the caller and creates no record.
C10_RateLimitedReported ==
    /\ last.op = "status"
    /\ ~last.entry.present
    /\ attempt.by # NoReq
    /\ ~attempt.ok
    => /\ last.code = 429
       /\ ~video_cache[last.id].present

\* a request has just been refused by can_make_did_api_call
JustRefused == attempt.by # NoReq /\ ~attempt.ok

\* C11: when submit cannot acquire the throttle it makes no provider call
\* and the outcome reported to the caller is RateLimited (429), not a
\* generic failure.
C11_SubmitRateLimited ==
    last.op = "generate" /\ JustRefused => last.code = 429 /\ ~last.called

\* C12: when the provider rejects the submission with a non-success status
\* s, submit reports exactly s to the caller and the throttle is released.
C12_RejectionVerbatim ==
    last.op = "generate" /\ last.called /\ last.inner > 1
        => last.code = last.inner /\ ~did_api_lock

\* C13: when the presenters entry exists, is older than AvatarTTL and the
\* throttle refuses the refreshing call, listPresenters returns the stale
\* cached list and not an error.
C13_StaleAvatarsServed ==
    last.op = "avatars" /\ JustRefused /\ avatars_cache.present
        => last.code = 200 /\ last.served = "cache"

\* C14: the lock is released on every way out of a provider call: whenever
\* no provider call is outstanding did_api_lock is false, and a
\* can_make_did_api_call made MinInterval or more after the last admitted
\* call with no call outstanding succeeds.
C14_LockReleased ==
    /\ InFlight = {} => ~did_api_lock
    /\ attempt.by # NoReq /\ ~attempt.admit /\ InFlight = {}
            /\ attempt.at - attempt.last_call >= MinInterval
        => attempt.ok

C14_Witness ==
    /\ last.called
    /\ last.served = "error"
    /\ last.inner = 1
    /\ InFlight = {}
    /\ ~did_api_lock

\* the requests whose provider call is outstanding, whichever way they
\* came to it
AtProvider == {r \in Reqs : req[r].pc \in {"call", "rt_call"}}

\* C15: every invocation of a provider operation happens after a successful
\* can_make_did_api_call by the same caller, which holds the lock while the
\* call is outstanding, and the lock is released before control returns.
C15_ThrottledAccess ==
    /\ \A r \in AtProvider : did_api_lock /\ last_did_api_call = req[r].ct
    /\ last.called /\ AtProvider = {} => ~did_api_lock

\* a status request has just been answered after a provider call that
\* failed: the transport raised or the response was not a 200
LiveFailure == last.op = "status" /\ last.called /\ last.served = "error"

\* a status request has just been answered by a live check in which the
\* provider reported the job's state as error
LiveError == last.op = "status" /\ last.served = "live" /\ last.status = "error"

\* C16, of a failed call: the error is surfaced and the record is as the
\* handler found it
C16_FailedCall ==
    LiveFailure => last.code >= 400 /\ video_cache[last.id] = last.entry

State(status) ==
    CASE status = "pending" -> "Pending"
      [] status \in {"created", "started"} -> "Processing"
      [] status = "completed" -> "Completed"
      [] status = "error" -> "Failed"
      [] OTHER -> "Unknown"

\* a status request has just been answered by a successful live check
LiveChecked == last.op = "status" /\ last.served = "live" /\ last.code = 200

Forward(a, b) ==
    \/ a = "Pending" /\ b \in {"Processing", "Completed", "Failed"}
    \/ a = "Processing" /\ b \in {"Completed", "Failed"}

C18_Step ==
    \A i \in Ids :
        video_cache[i].present
            => LET a == State(video_cache[i].status)
                   b == State(video_cache'[i].status) IN
               a = b \/ Forward(a, b)

C19_TimestampOrder ==
    \A i \in Ids :
        video_cache[i].present
            => video_cache[i].last_d_id_check <= video_cache[i].last_checked

\* the step creates the record of i
Created(i) == ~video_cache[i].present /\ video_cache'[i].present

\* the step is generate_video storing the job it submitted as i
ByGenerate(i) ==
    \E r \in Reqs : req[r].op = "generate" /\ req[r].pc = "gen_store" /\ req[r].id = i

\* the step is get_video_status or stream_video storing what a live check
\* of i returned
ByCheck(i) ==
    \E r \in Reqs :
        /\ req[r].id = i
        /\ \/ req[r].op = "status" /\ req[r].pc = "call"
           \/ req[r].op = "stream" /\ req[r].pc = "st_store"

Kept(i) == video_cache[i].present => video_cache'[i].present

\* C20 as the spec states it: job records are created only by a successful
\* submission and are never deleted.
C20_AsStated ==
    [][\A i \in Ids : (Created(i) => ByGenerate(i)) /\ Kept(i)]_vars

\* C20, amended: a job record is created by a successful submission or by
\* a successful live check (getStatus or the stream endpoint) of an id the
\* provider knows, whether or not this process submitted it; there is one
\* record per id and a record is never deleted.
C20_Records ==
    [][\A i \in Ids :
          /\ Created(i) => ByGenerate(i) \/ (ByCheck(i) /\ did[i] # "none")
          /\ Kept(i)]_vars

C20_Witness ==
    /\ last.op \in {"status", "stream"}
    /\ ~last.entry.present
    /\ video_cache[last.id].present

\* the requests whose call about a job has been admitted: a status check
\* by get_video_status or by stream_video
Checking == {r \in Admitted : req[r].op \in {"status", "stream"}}

\* the entry was written by a live check of get_video_status, so that its
\* last_d_id_check is the time of a provider status call about the job
LiveWritten(e) == e.present /\ e.status \notin {"pending", "completed"}

Polled == last.op = "status" /\ last.entry.present /\ last.entry.status # "completed"

\* C22: every getStatus of a job with a record not completed made
\* ProviderWindow + FreshWindow or more after lastProviderCheckAt passes
\* cases 2 and 3 and asks for a provider call; case 3 never answers
\* ProviderWindow or more after lastProviderCheckAt, so that its refresh
\* of lastCheckedAt postpones the live check by less than FreshWindow.
C22_BoundedStaleness ==
    /\ Polled /\ last.at - last.entry.last_d_id_check >= ProviderWindow + FreshWindow
        => last.served \notin {"tier1", "tier2", "tier3"}
    /\ Polled /\ last.served = "tier3"
        => last.at - last.entry.last_d_id_check < ProviderWindow
    /\ \A i \in Ids :
          video_cache[i].present /\ video_cache[i].status # "completed"
              => video_cache[i].last_checked - video_cache[i].last_d_id_check
                     < ProviderWindow

C22_Witness ==
    /\ Polled
    /\ last.at - last.entry.last_d_id_check >= ProviderWindow + FreshWindow
    /\ last.entry.last_checked > last.entry.last_d_id_check
    /\ last.served = "live"

\* the provider answers every call: no transport failure, no 5xx
Answered == [](last.called => last.inner \notin {1, 500})

\* the job v1 is done at the provider for good
DoneForGood == <>[](did["v1"] = "done")

\* the record of v1 is Completed
CompletedV1 == video_cache["v1"].present /\ video_cache["v1"].status = "completed"

\* a status check of v1 is with the provider
CheckingV1 ==
    \E r \in Reqs : req[r].op = "status" /\ req[r].id = "v1" /\ req[r].pc = "call"

\* C23 as the spec states it: if the job's provider state becomes and stays
\* done, the provider answers every admitted call and the job is polled
\* for ever under fair scheduling, its cached state eventually becomes
\* Completed, whatever else is polled and competes for the throttle.
C23_AsStated == DoneForGood /\ Answered => <>CompletedV1

\* C23, amended: under the same conditions the job's cached state
\* eventually becomes Completed provided that, again and again, a poll of
\* the job is admitted by the throttle; the throttle keeps no queue, and
\* polls that are always made less than MinInterval after another
\* client's admitted call are refused for ever.
C23_Progress == DoneForGood /\ Answered /\ []<>CheckingV1 => <>CompletedV1

C23_Witness ==
    /\ CompletedV1
    /\ last.op = "status"
    /\ last.served = "live"
    /\ last.id = "v1"
    /\ req[Rival].pc = "queued"

====
